---- MODULE Spec2Model ----
(***************************************************************************)
(* A model of the PubMed paper fetcher: the affiliation classifier         *)
(* (utils.py), the record extractor fetch_paper_details and the query      *)
(* pipeline fetch_papers (fetcher.py).                                     *)
(*                                                                         *)
(* Python strings are TLA+ strings; Len, SubSeq and \o act on them         *)
(* character by character.  Python dictionaries are functions whose domain *)
(* is the set of keys present.                                             *)
(***************************************************************************)
EXTENDS Integers, Sequences, FiniteSets, TLC

VARIABLES
    pc,           \* position of the run
    affiliation,  \* classifier input
    verdict,      \* classifier output
    record,       \* extractor input: what Entrez.read returned for one efetch
    summary,      \* extractor output: the dictionary fetch_paper_details returns
    pmids,        \* fetch_papers: the identifiers the search returned
    idx,          \* fetch_papers: number of identifiers the loop has processed
    papers,       \* fetch_papers: the list being built, returned at the end
    calls,        \* the Entrez calls issued so far, with their outcome
    errors,       \* identifiers passed to logging.error
    handles,      \* number of handles opened and not yet released
    raised        \* TRUE when an exception has left fetch_papers

vars == <<pc, affiliation, verdict, record, summary, pmids, idx, papers,
          calls, errors, handles, raised>>

-----------------------------------------------------------------------------
(* Bounds of the model.                                                    *)

MaxFragments == 3   \* an affiliation text is made of at most this many fragments
MaxAuthors == 3     \* authors in one AuthorList
MaxIds == 3         \* identifiers one search returns (retmax in the code)

-----------------------------------------------------------------------------
(* Characters and strings.                                                 *)

CharAt(s, i) == SubSeq(s, i, i)

Chars(s) == {CharAt(s, i) : i \in 1..Len(s)}

UpperCase == "ABCDEFGHIJKLMNOPQRSTUVWXYZ"
LowerCase == "abcdefghijklmnopqrstuvwxyz"
Digits == "0123456789"

UpperChars == Chars(UpperCase)
WordChars == Chars(UpperCase) \cup Chars(LowerCase) \cup Chars(Digits) \cup {"_"}
Whitespace == {" ", "\t", "\n", "\r"}

\* the lower-case letter of each upper-case letter
LowerOf ==
    [c \in UpperChars |->
        CharAt(LowerCase, CHOOSE i \in 1..Len(UpperCase) : CharAt(UpperCase, i) = c)]

\* str.lower() on one character
lower_char(c) == IF c \in UpperChars THEN LowerOf[c] ELSE c

\* str.lower()
RECURSIVE lower(_)
lower(s) ==
    IF s = "" THEN "" ELSE lower_char(CharAt(s, 1)) \o lower(SubSeq(s, 2, Len(s)))

\* Python's  k in aff  on strings
contains(aff, k) ==
    \E i \in 1..(Len(aff) - Len(k) + 1) : SubSeq(aff, i, i + Len(k) - 1) = k

\* str.strip()
RECURSIVE lstrip(_)
lstrip(s) ==
    IF s # "" /\ CharAt(s, 1) \in Whitespace THEN lstrip(SubSeq(s, 2, Len(s))) ELSE s

RECURSIVE rstrip(_)
rstrip(s) ==
    IF s # "" /\ CharAt(s, Len(s)) \in Whitespace
    THEN rstrip(SubSeq(s, 1, Len(s) - 1)) ELSE s

strip(s) == rstrip(lstrip(s))

\* sep.join(seq)
RECURSIVE join(_, _)
join(sep, seq) ==
    IF Len(seq) = 0 THEN ""
    ELSE IF Len(seq) = 1 THEN seq[1]
    ELSE seq[1] \o sep \o join(sep, Tail(seq))

\* dict.get(key, default)
Get(d, key, default) == IF key \in DOMAIN d THEN d[key] ELSE default

\* the sequences of length at most n over S
BoundedSeq(S, n) == UNION {[1..k -> S] : k \in 0..n}

-----------------------------------------------------------------------------
(* utils.py: the affiliation classifier.                                   *)

non_academic_keywords ==
    << "pharma", "biotech", "inc", "ltd", "llc", "gmbh", "corp", "co", "industries",
       "solutions", "company", "laboratories", "lab", "research institute" >>

academic_keywords ==
    << "university", "college", "school", "institute of technology", "faculty",
       "dept", "department", "hospital", "center", "centre", "academy" >>

\* any(k in aff for k in keywords): the generator stops at the first hit
RECURSIVE any_in(_, _)
any_in(keywords, aff) ==
    IF Len(keywords) = 0 THEN FALSE
    ELSE IF contains(aff, Head(keywords)) THEN TRUE
    ELSE any_in(Tail(keywords), aff)

\* the classifier with the case folding left out
is_non_academic_affiliation_cased(text) ==
    LET aff == text
    IN  any_in(non_academic_keywords, aff) /\ ~ any_in(academic_keywords, aff)

is_non_academic_affiliation(text) ==
    LET aff == lower(text)
    IN  any_in(non_academic_keywords, aff) /\ ~ any_in(academic_keywords, aff)

-----------------------------------------------------------------------------
(* The classifier on its own: the text is drawn from the concatenations    *)
(* of a few fragments, which meet to form keywords in either case.         *)

Fragments == {"co", "CO", "Dept", "dept", "in", "c", " ", "x", "La", "b"}

RECURSIVE concat(_)
concat(seq) == IF Len(seq) = 0 THEN "" ELSE Head(seq) \o concat(Tail(seq))

Texts == {concat(f) : f \in BoundedSeq(Fragments, MaxFragments)}

Idle ==
    /\ record = << >>
    /\ summary = << >>
    /\ pmids = << >>
    /\ idx = 0
    /\ papers = << >>
    /\ calls = << >>
    /\ errors = << >>
    /\ handles = 0
    /\ raised = FALSE

InitClassify ==
    /\ pc = "classify"
    /\ affiliation \in Texts
    /\ verdict = FALSE
    /\ Idle

Classify ==
    /\ pc = "classify"
    /\ verdict' = is_non_academic_affiliation(affiliation)
    /\ pc' = "classified"
    /\ UNCHANGED <<affiliation, record, summary, pmids, idx, papers, calls,
                   errors, handles, raised>>

NextClassify == Classify

SpecClassify == InitClassify /\ [][NextClassify]_vars

\* keyword k occurs at position i of the characters folded
OccursAt(k, folded, i) ==
    /\ i + Len(k) - 1 <= Len(folded)
    /\ \A j \in 1..Len(k) : folded[i + j - 1] = CharAt(k, j)

\* some keyword occurs somewhere in the text, letter case aside
Mentions(keywords, text) ==
    LET folded == [i \in 1..Len(text) |-> lower_char(CharAt(text, i))]
    IN  \E n \in 1..Len(keywords) : \E i \in 1..Len(text) :
            OccursAt(keywords[n], folded, i)

\* C3: the classifier answers true exactly when the text, letter case aside,
\* contains a non-academic keyword and contains no academic keyword; a text
\* with both kinds of keyword, and a text with neither, is answered false.
C3_Classifier ==
    pc = "classified" =>
        /\ verdict = (Mentions(non_academic_keywords, affiliation)
                        /\ ~ Mentions(academic_keywords, affiliation))
        /\ (Mentions(academic_keywords, affiliation) => verdict = FALSE)
        /\ (~ Mentions(non_academic_keywords, affiliation) => verdict = FALSE)

\* an upper-case text with both kinds of keyword has been classified false
C3_Witness ==
    /\ pc = "classified"
    /\ affiliation = "CODept"
    /\ verdict = FALSE

-----------------------------------------------------------------------------
(* fetcher.py: fetch_paper_details, from the parsed record on.             *)

EmailChars == WordChars \cup {".", "-"}

\* the last position of the run of [\w\.-] characters that starts at i,
\* i - 1 when there is none
RECURSIVE RunEnd(_, _)
RunEnd(s, i) ==
    IF i <= Len(s) /\ CharAt(s, i) \in EmailChars THEN RunEnd(s, i + 1) ELSE i - 1

\* [\w\.-]+@[\w\.-]+ matches at position i: "@" is outside the class, so the
\* first run must end right before it, and both runs are taken whole (greedy)
MatchAt(s, i) ==
    LET e == RunEnd(s, i)
    IN  /\ e >= i
        /\ e + 1 <= Len(s)
        /\ CharAt(s, e + 1) = "@"
        /\ RunEnd(s, e + 2) >= e + 2

\* re.search(r"[\w\.-]+@[\w\.-]+", s): the leftmost match, or None
re_search(s) ==
    IF \E i \in 1..Len(s) : MatchAt(s, i)
    THEN LET i == CHOOSE i \in 1..Len(s) :
                      MatchAt(s, i) /\ \A j \in 1..(i - 1) : ~ MatchAt(s, j)
         IN  [matched |-> TRUE, group0 |-> SubSeq(s, i, RunEnd(s, RunEnd(s, i) + 2))]
    ELSE [matched |-> FALSE, group0 |-> ""]

\* the three accumulators before the author loop
empty_acc ==
    [non_academic_authors |-> << >>, company_affiliations |-> << >>,
     corresponding_email |-> ""]

\* the body of the inner loop where an email, once recorded, is kept
scan_affiliation_first_wins(acc, author, aff) ==
    LET aff_text == Get(aff, "Affiliation", "")
    IN  IF is_non_academic_affiliation(aff_text)
        THEN LET fullname == strip(Get(author, "ForeName", "") \o " "
                                     \o Get(author, "LastName", ""))
                 match == re_search(aff_text)
             IN  [non_academic_authors |-> Append(acc.non_academic_authors, fullname),
                  company_affiliations |-> Append(acc.company_affiliations, aff_text),
                  corresponding_email |->
                      IF match.matched /\ acc.corresponding_email = ""
                      THEN match.group0 ELSE acc.corresponding_email]
        ELSE acc

\* the body of the inner loop: one affiliation of one author
scan_affiliation(acc, author, aff) ==
    LET aff_text == Get(aff, "Affiliation", "")
    IN  IF is_non_academic_affiliation(aff_text)
        THEN LET fullname == strip(Get(author, "ForeName", "") \o " "
                                     \o Get(author, "LastName", ""))
                 match == re_search(aff_text)
             IN  [non_academic_authors |-> Append(acc.non_academic_authors, fullname),
                  company_affiliations |-> Append(acc.company_affiliations, aff_text),
                  corresponding_email |->
                      IF match.matched THEN match.group0 ELSE acc.corresponding_email]
        ELSE acc

\* for aff in affiliations
RECURSIVE scan_affiliations(_, _, _)
scan_affiliations(acc, author, affiliations) ==
    IF Len(affiliations) = 0 THEN acc
    ELSE scan_affiliations(scan_affiliation(acc, author, Head(affiliations)),
                           author, Tail(affiliations))

\* for author in authors
RECURSIVE scan_authors(_, _)
scan_authors(acc, author_list) ==
    IF Len(author_list) = 0 THEN acc
    ELSE LET author == Head(author_list)
         IN  scan_authors(IF "AffiliationInfo" \in DOMAIN author
                          THEN scan_affiliations(acc, author, author["AffiliationInfo"])
                          ELSE acc,
                          Tail(author_list))

\* a list handed on as it is, duplicates included
list_iterations(list) == {list}

\* the orders in which iterating set(list) can yield its elements: the order
\* of a set of strings follows their hashes, which change from run to run
set_iterations(list) ==
    LET S == {list[i] : i \in 1..Len(list)}
    IN  {o \in [1..Cardinality(S) -> S] : \A i, j \in 1..Cardinality(S) : o[i] = o[j] => i = j}

\* record["PubmedArticle"][0]["MedlineCitation"]["Article"] raises
parse_raises(rec) ==
    \/ "PubmedArticle" \notin DOMAIN rec
    \/ Len(rec["PubmedArticle"]) = 0
    \/ "MedlineCitation" \notin DOMAIN rec["PubmedArticle"][1]
    \/ "Article" \notin DOMAIN rec["PubmedArticle"][1]["MedlineCitation"]

article_data_of(rec) == rec["PubmedArticle"][1]["MedlineCitation"]["Article"]

\* the author loop over one article
scan_article(article_data) == scan_authors(empty_acc, Get(article_data, "AuthorList", << >>))

NoDict == [x \in {} |-> ""]

\* the dictionary fetch_paper_details returns, the two sets iterated in the
\* orders names and affs
paper_details(pmid, article_data, corresponding_email, names, affs) ==
    LET pub_date == Get(Get(Get(article_data, "Journal", NoDict),
                            "JournalIssue", NoDict), "PubDate", NoDict)
        date_str == Get(pub_date, "Year", "") \o "-" \o Get(pub_date, "Month", "")
                      \o "-" \o Get(pub_date, "Day", "")
    IN  [k \in {"PubmedID", "Title", "Publication Date", "Non-academic Author(s)",
                "Company Affiliation(s)", "Corresponding Author Email"} |->
            CASE k = "PubmedID" -> pmid
              [] k = "Title" -> Get(article_data, "ArticleTitle", "")
              [] k = "Publication Date" -> date_str
              [] k = "Non-academic Author(s)" -> join(", ", names)
              [] k = "Company Affiliation(s)" -> join(", ", affs)
              [] k = "Corresponding Author Email" -> corresponding_email]

\* the dictionaries fetch_paper_details can return for a record that parses
fetch_paper_details_results(pmid, rec) ==
    LET acc == scan_article(article_data_of(rec))
    IN  {paper_details(pmid, article_data_of(rec), acc.corresponding_email, names, affs) :
            names \in set_iterations(acc.non_academic_authors),
            affs \in set_iterations(acc.company_affiliations)}

-----------------------------------------------------------------------------
(* The extractor on its own: the record is drawn from the author lists     *)
(* over a pool of authors, and from the records that do not parse.         *)

Jane ==
    [ForeName |-> "Jane", LastName |-> "Doe",
     AffiliationInfo |-> << [Affiliation |-> "Acme Pharma Inc"] >>]

John ==
    [ForeName |-> "John", LastName |-> "Poe",
     AffiliationInfo |-> << [Affiliation |-> "Acme Inc, j.doe@acme.com"],
                            [Affiliation |-> "Beta Biotech x@beta.io"] >>]

\* a collective author: neither ForeName nor LastName
Group ==
    [CollectiveName |-> "Beta Study Group",
     AffiliationInfo |-> << [Affiliation |-> "Beta Biotech x@beta.io"] >>]

Al ==
    [ForeName |-> "Al", LastName |-> "Roe",
     AffiliationInfo |-> << [Affiliation |-> "University of X"] >>]

\* no AffiliationInfo at all
Solo == [LastName |-> "Doe"]

\* forename only; one affiliation entry without text, one shared with Jane
Mona ==
    [ForeName |-> " Mona",
     AffiliationInfo |-> << [Identifier |-> "ror"],
                            [Affiliation |-> "Acme Pharma Inc"] >>]

AuthorPool == <<Jane, John, Group, Al, Solo, Mona>>

Journal2024 == [JournalIssue |-> [PubDate |-> [Year |-> "2024", Month |-> "Jan"]]]

\* the record of a well-formed article with the given author list
ArticleRecord(author_list) ==
    [PubmedArticle |-> << [MedlineCitation |-> [Article |->
        [ArticleTitle |-> "T", Journal |-> Journal2024, AuthorList |-> author_list]]] >>]

\* a well-formed article without title, date and author list
BareRecord == [PubmedArticle |-> << [MedlineCitation |-> [Article |-> [Language |-> "eng"]]] >>]

\* records on which the parse raises
EmptyRecord == [PubmedArticle |-> << >>, PubmedBookArticle |-> << >>]
BookRecord == [PubmedBookArticle |-> << [BookDocument |-> "b"] >>]

ExtractInputs ==
    {ArticleRecord([i \in 1..Len(s) |-> AuthorPool[s[i]]]) :
        s \in BoundedSeq(1..Len(AuthorPool), MaxAuthors)}
    \cup {BareRecord, EmptyRecord, BookRecord}

ExtractId == "101"

InitExtract ==
    /\ pc = "extract"
    /\ record \in ExtractInputs
    /\ summary = << >>
    /\ affiliation = ""
    /\ verdict = FALSE
    /\ pmids = << >>
    /\ idx = 0
    /\ papers = << >>
    /\ calls = << >>
    /\ errors = << >>
    /\ handles = 0
    /\ raised = FALSE

Extract ==
    /\ pc = "extract"
    /\ IF parse_raises(record)
       THEN /\ pc' = "extract_raised"
            /\ UNCHANGED summary
       ELSE /\ pc' = "extracted"
            /\ summary' \in fetch_paper_details_results(ExtractId, record)
    /\ UNCHANGED <<affiliation, verdict, record, pmids, idx, papers, calls,
                   errors, handles, raised>>

NextExtract == Extract

SpecExtract == InitExtract /\ [][NextExtract]_vars

\* the author list of a record that parses
AuthorListOf(rec) == Get(article_data_of(rec), "AuthorList", << >>)

\* the scan positions <<author, affiliation>> of an author list
Positions(al) ==
    UNION {{<<a, f>> : f \in 1..Len(al[a]["AffiliationInfo"])} :
              a \in {b \in 1..Len(al) : "AffiliationInfo" \in DOMAIN al[b]}}

AffText(al, h) == Get(al[h[1]]["AffiliationInfo"][h[2]], "Affiliation", "")

NonAcademicText(text) ==
    Mentions(non_academic_keywords, text) /\ ~ Mentions(academic_keywords, text)

\* the positions whose affiliation is non-academic
Hits(al) == {h \in Positions(al) : NonAcademicText(AffText(al, h))}

\* ... and holds an email
EmailHits(al) == {h \in Hits(al) : re_search(AffText(al, h)).matched}

\* h is scanned before g: author order, then affiliation order
Before(h, g) == h[1] < g[1] \/ (h[1] = g[1] /\ h[2] < g[2])

FirstOf(H) == CHOOSE h \in H : \A g \in H : g = h \/ Before(h, g)
LastOf(H) == CHOOSE h \in H : \A g \in H : g = h \/ Before(g, h)

EmailAt(al, h) == re_search(AffText(al, h)).group0

DisplayName(author) ==
    strip(Get(author, "ForeName", "") \o " " \o Get(author, "LastName", ""))

\* field lists every element of S once, ", " between them
ListsOnce(field, S) ==
    \E o \in [1..Cardinality(S) -> S] :
        /\ \A e \in S : \E i \in 1..Cardinality(S) : o[i] = e
        /\ field = join(", ", o)

\* C6 as stated: the corresponding email is the first email met when the
\* non-academic affiliations are scanned in author order, then affiliation
\* order, and is empty when none of them holds an email.
C6_FirstEmailWins ==
    pc = "extracted" =>
        LET al == AuthorListOf(record)
            hits == EmailHits(al)
        IN  summary["Corresponding Author Email"] =
                IF hits = {} THEN "" ELSE EmailAt(al, FirstOf(hits))

\* C6 as the code has it: the corresponding email is the last email met when
\* the non-academic affiliations are scanned in author order, then affiliation
\* order (a later email overwrites an earlier one), and is empty when none of
\* them holds an email.
C6_LastEmailWins ==
    pc = "extracted" =>
        LET al == AuthorListOf(record)
            hits == EmailHits(al)
        IN  summary["Corresponding Author Email"] =
                IF hits = {} THEN "" ELSE EmailAt(al, LastOf(hits))

\* two non-academic affiliations with different emails were scanned and the
\* later one is the corresponding email
C6_Witness ==
    /\ pc = "extracted"
    /\ LET al == AuthorListOf(record)
           hits == EmailHits(al)
       IN  /\ \E h, g \in hits : EmailAt(al, h) # EmailAt(al, g)
           /\ summary["Corresponding Author Email"] = EmailAt(al, LastOf(hits))
           /\ summary["Corresponding Author Email"] # EmailAt(al, FirstOf(hits))

\* C7: the non-academic-authors value and the company-affiliations value list
\* each distinct name, and each distinct affiliation text, exactly once,
\* however many authors or affiliations repeat it.
C7_Deduplicated ==
    pc = "extracted" =>
        LET al == AuthorListOf(record)
            hits == Hits(al)
        IN  /\ ListsOnce(summary["Non-academic Author(s)"],
                         {DisplayName(al[h[1]]) : h \in hits})
            /\ ListsOnce(summary["Company Affiliation(s)"],
                         {AffText(al, h) : h \in hits})

\* two authors share a non-academic affiliation text, one author has two
\* non-academic affiliations, and the summary has been extracted
C7_Witness ==
    /\ pc = "extracted"
    /\ LET al == AuthorListOf(record)
           hits == Hits(al)
       IN  /\ \E h, g \in hits : h[1] # g[1] /\ AffText(al, h) = AffText(al, g)
           /\ \E h, g \in hits : h[1] = g[1] /\ h[2] # g[2]
           /\ summary["Company Affiliation(s)"] \in
                 {"Acme Pharma Inc, Acme Inc, j.doe@acme.com, Beta Biotech x@beta.io"}

-----------------------------------------------------------------------------
(* fetcher.py: the query pipeline fetch_papers, with the Entrez service.   *)
(* A call to esearch or efetch can raise before a handle exists, and       *)
(* Entrez.read can raise on the open handle; which of them happens is the  *)
(* service's choice.  What efetch delivers for an identifier is fixed.     *)

Query == "cancer immunotherapy"

PMIDs == {"101", "102", "103", "104", "105"}

\* the record Entrez.read delivers for an identifier
Database(pmid) ==
    CASE pmid = "101" -> ArticleRecord(<<Jane>>)
      [] pmid = "102" -> ArticleRecord(<<Al, Solo>>)
      [] pmid = "103" -> ArticleRecord(<<Group>>)
      [] pmid = "104" -> EmptyRecord
      [] pmid = "105" -> ArticleRecord(<<John>>)

Init ==
    /\ pc = "start"
    /\ affiliation = ""
    /\ verdict = FALSE
    /\ Idle

\* one call of the service as the run observes it
Call(fn, arg, outcome) == [fn |-> fn, arg |-> arg, outcome |-> outcome]

\* the search failure swallowed: the run goes on with no identifiers
SearchOpenErrorCaught ==
    /\ pc = "start"
    /\ calls' = Append(calls, Call("esearch", Query, "open_error"))
    /\ pmids' = << >>
    /\ pc' = "loop"
    /\ UNCHANGED <<affiliation, verdict, record, summary, idx, papers,
                   errors, handles, raised>>

\* Entrez.esearch raises: nothing was opened, and nothing in fetch_papers
\* catches the exception
SearchOpenError ==
    /\ pc = "start"
    /\ calls' = Append(calls, Call("esearch", Query, "open_error"))
    /\ raised' = TRUE
    /\ pc' = "raised"
    /\ UNCHANGED <<affiliation, verdict, record, summary, pmids, idx, papers,
                   errors, handles>>

\* Entrez.read raises in fetch_pubmed_ids: handle.close() is not reached
SearchReadError ==
    /\ pc = "start"
    /\ calls' = Append(calls, Call("esearch", Query, "read_error"))
    /\ handles' = handles + 1
    /\ raised' = TRUE
    /\ pc' = "raised"
    /\ UNCHANGED <<affiliation, verdict, record, summary, pmids, idx, papers, errors>>

\* fetch_pubmed_ids returns record["IdList"]; the handle was closed
SearchOk ==
    /\ pc = "start"
    /\ \E ids \in BoundedSeq(PMIDs, MaxIds) : pmids' = ids
    /\ calls' = Append(calls, Call("esearch", Query, "ok"))
    /\ pc' = "loop"
    /\ UNCHANGED <<affiliation, verdict, record, summary, idx, papers, errors,
                   handles, raised>>

\* the filter of fetch_papers left out
keep_all(paper) == TRUE

\* if paper["Non-academic Author(s)"]
keep(paper) == paper["Non-academic Author(s)"] # ""

\* a paper put at the front of the list
insert_front(list, paper) == <<paper>> \o list

\* papers.append(paper)
append(list, paper) == Append(list, paper)

\* the failed identifier tried again
FetchOpenErrorRetry ==
    /\ pc = "loop"
    /\ idx < Len(pmids)
    /\ calls' = Append(calls, Call("efetch", pmids[idx + 1], "open_error"))
    /\ errors' = Append(errors, pmids[idx + 1])
    /\ UNCHANGED <<pc, affiliation, verdict, record, summary, pmids, idx, papers,
                   handles, raised>>

\* Entrez.efetch raises: the except clause logs the identifier
FetchOpenError ==
    /\ pc = "loop"
    /\ idx < Len(pmids)
    /\ calls' = Append(calls, Call("efetch", pmids[idx + 1], "open_error"))
    /\ errors' = Append(errors, pmids[idx + 1])
    /\ idx' = idx + 1
    /\ UNCHANGED <<pc, affiliation, verdict, record, summary, pmids, papers,
                   handles, raised>>

\* Entrez.read raises in fetch_paper_details: handle.close() is not reached,
\* the except clause logs the identifier
FetchReadError ==
    /\ pc = "loop"
    /\ idx < Len(pmids)
    /\ calls' = Append(calls, Call("efetch", pmids[idx + 1], "read_error"))
    /\ handles' = handles + 1
    /\ errors' = Append(errors, pmids[idx + 1])
    /\ idx' = idx + 1
    /\ UNCHANGED <<pc, affiliation, verdict, record, summary, pmids, papers, raised>>

\* the record is read and the handle closed; the extraction raises, or
\* returns a paper that is kept or dropped
FetchOk ==
    /\ pc = "loop"
    /\ idx < Len(pmids)
    /\ calls' = Append(calls, Call("efetch", pmids[idx + 1], "ok"))
    /\ LET pmid == pmids[idx + 1]
           rec == Database(pmid)
       IN  IF parse_raises(rec)
           THEN /\ errors' = Append(errors, pmid)
                /\ UNCHANGED papers
           ELSE /\ \E paper \in fetch_paper_details_results(pmid, rec) :
                       papers' = IF keep(paper) THEN append(papers, paper) ELSE papers
                /\ UNCHANGED errors
    /\ idx' = idx + 1
    /\ UNCHANGED <<pc, affiliation, verdict, record, summary, pmids, handles, raised>>

\* return papers
Return ==
    /\ pc = "loop"
    /\ idx = Len(pmids)
    /\ pc' = "done"
    /\ UNCHANGED <<affiliation, verdict, record, summary, pmids, idx, papers, calls,
                   errors, handles, raised>>

\* a handle nobody closed is released when the collector finalizes it, at a
\* time the program does not choose
Finalize ==
    /\ handles > 0
    /\ handles' = handles - 1
    /\ UNCHANGED <<pc, affiliation, verdict, record, summary, pmids, idx, papers,
                   calls, errors, raised>>

Next ==
    \/ SearchOpenError
    \/ SearchReadError
    \/ SearchOk
    \/ FetchOpenError
    \/ FetchReadError
    \/ FetchOk
    \/ Return
    \/ Finalize

Spec == Init /\ [][Next]_vars

-----------------------------------------------------------------------------
(* Properties of the pipeline.                                             *)

PaperIds == [i \in 1..Len(papers) |-> papers[i]["PubmedID"]]

\* the fetch of the i-th identifier returned a record that parsed
Succeeded(i) ==
    /\ i + 1 <= Len(calls)
    /\ calls[i + 1].outcome = "ok"
    /\ ~ parse_raises(Database(pmids[i]))

\* the record of the identifier has an author with a non-academic affiliation
HasNonAcademicAuthor(pmid) == Hits(AuthorListOf(Database(pmid))) # {}

\* s is t with some elements left out
IsSubsequence(s, t) ==
    \E f \in [1..Len(s) -> 1..Len(t)] :
        /\ \A i, j \in 1..Len(s) : i < j => f[i] < f[j]
        /\ \A i \in 1..Len(s) : s[i] = t[f[i]]

\* the identifiers at the positions 1..n of pmids that are in Good, in order
RECURSIVE Selected(_, _)
Selected(n, Good) ==
    IF n = 0 THEN << >>
    ELSE IF n \in Good THEN Append(Selected(n - 1, Good), pmids[n])
    ELSE Selected(n - 1, Good)

\* C1: no paper in the list fetch_papers builds and returns has an empty
\* non-academic-authors field, whatever was found and whatever failed.
C1_NoEmptyAuthors ==
    \A i \in 1..Len(papers) : papers[i]["Non-academic Author(s)"] # ""

\* a run has ended in which a fetch failed, an academic-only record was
\* fetched and dropped, and a paper was returned
C1_Witness ==
    /\ pc = "done"
    /\ errors # << >>
    /\ papers # << >>
    /\ \E i \in 1..Len(pmids) : Succeeded(i) /\ pmids[i] = "102"

\* C2: whatever identifiers fail, the run processes every identifier, raises
\* nothing, and returns the summaries of exactly the identifiers whose fetch
\* succeeded and whose record has a non-academic author, in search order.
C2_PartialFailureIsolation ==
    pc = "done" =>
        /\ raised = FALSE
        /\ idx = Len(pmids)
        /\ LET Good == {i \in 1..Len(pmids) :
                            Succeeded(i) /\ HasNonAcademicAuthor(pmids[i])}
           IN  PaperIds = Selected(Len(pmids), Good)

\* C4: when the search call fails the exception leaves fetch_papers: nothing
\* is returned, and no fetch is issued.
C4_SearchFailureFatal ==
    (calls # << >> /\ calls[1].outcome # "ok") =>
        /\ raised = TRUE
        /\ pc = "raised"
        /\ Len(calls) = 1
        /\ papers = << >>

\* the search service was unreachable and the run has ended with the exception
C4_Witness ==
    /\ pc = "raised"
    /\ raised = TRUE
    /\ calls = << Call("esearch", Query, "open_error") >>

\* C5: the identifiers of the papers are a subsequence of the identifiers the
\* search returned: search order, never re-sorted, none more often than found.
C5_SearchOrder == IsSubsequence(PaperIds, pmids)

\* two papers were returned in the order of the search, which is not sorted
C5_Witness ==
    /\ pc = "done"
    /\ pmids = << "105", "102", "101" >>
    /\ PaperIds = << "105", "101" >>

\* C8: a record whose fetch succeeded is in the output exactly when one of its
\* authors has a non-academic affiliation, named or not.
C8_IncludedIffNonAcademic ==
    \A i \in 1..idx :
        Succeeded(i) =>
            ((\E j \in 1..Len(papers) : papers[j]["PubmedID"] = pmids[i])
                <=> HasNonAcademicAuthor(pmids[i]))

\* C9: one search call, then one fetch call per identifier of the search, in
\* search order and one at a time; a failed fetch is not tried again, nothing
\* else is fetched, and an empty search gives no fetch and an empty output.
C9_OneCallPerIdentifier ==
    /\ Len(calls) = (IF pc = "start" THEN 0 ELSE 1 + idx)
    /\ \A i \in 1..Len(calls) : (calls[i].fn = "esearch") <=> (i = 1)
    /\ \A i \in 2..Len(calls) : i - 1 <= Len(pmids) /\ calls[i].arg = pmids[i - 1]
    /\ pc = "done" => Len(calls) = 1 + Len(pmids)
    /\ (pc = "done" /\ pmids = << >>) => papers = << >>

\* a run over three identifiers has ended, one of whose fetches failed
C9_Witness ==
    /\ pc = "done"
    /\ Len(pmids) = 3
    /\ Len(calls) = 4
    /\ \E i \in 2..4 : calls[i].outcome = "open_error"

\* C10: every handle a search or fetch call opened is released when the call
\* exits, whichever way it exits.
C10_HandlesReleased == handles = 0

====
